---------------------------- MODULE Spec2Model ----------------------------
(***************************************************************************)
(* Model of the event function (src/lambda_handler.py) and of the item     *)
(* creation and item listing endpoints of the REST service                 *)
(* (src/app_flask.py).                                                     *)
(*                                                                         *)
(* An invocation is one atomic step: the handler is a function of the      *)
(* event and of the outcomes of the collaborator calls it makes (the       *)
(* "environment": key-value store, metric sink, notification sink).  The   *)
(* state records the last invocation: its input, its environment, the      *)
(* response (or the exception that escaped) and the log of collaborator    *)
(* calls in the order they were issued.                                    *)
(***************************************************************************)
EXTENDS Integers, Sequences, FiniteSets

VARIABLES
    entry,      \* the entry point invoked: "classify", "lambda", "flask"
    pc,         \* "start" while the invocation is pending, "done" once it ended
    event,      \* the event handed to lambda_handler / determine_event_source
    request,    \* the HTTP request handed to the Flask route
    env,        \* outcomes of the collaborator calls of that invocation
    resp,       \* what the entry point produced: a return value or a raise
    calls,      \* collaborator calls issued, in order
    tag,        \* result of the last stand-alone determine_event_source call
    table,      \* the items the REST service stored, in the order a scan returns them
    clock,      \* the value datetime.utcnow() returns
    created,    \* ids of the items POST /api/items answered 201 for, in order
    pages       \* the pages a caller of GET /api/items received, in order

storeVars == <<table, clock, created, pages>>

vars == <<entry, pc, event, request, env, resp, calls, tag, table, clock, created, pages>>

-----------------------------------------------------------------------------
(* Bounds of the model *)

MaxRecords == 2     \* longest Records sequence of an event
MaxItems == 3       \* most items a store scan returns
MaxTable == 3       \* most items in the store when a listing session starts
MaxPages == 3       \* most pages a caller asks for in one listing session
MaxClock == 3       \* last clock value
MaxCreates == 3     \* most POST /api/items requests in one run

-----------------------------------------------------------------------------
(* Python values: a key that is missing from a mapping *)

ABSENT == "<absent>"

(* Outcome of evaluating a Python expression or call *)
Return(v) == [kind |-> "return", value |-> v]
Raise(exc, text) == [kind |-> "raise", exc |-> exc, text |-> text]

-----------------------------------------------------------------------------
(* Event payloads *)

NoDdb == [present |-> FALSE, isMap |-> FALSE, keysOk |-> FALSE, userId |-> ABSENT]

\* record['dynamodb'] as a mapping: keysOk says whether Keys holds valid
\* attribute values (TypeDeserializer accepts them); userId is the type
\* descriptor under NewImage['user_id'] ("S", another one, or no user_id).
Ddb(keysOk, userId) ==
    [present |-> TRUE, isMap |-> TRUE, keysOk |-> keysOk, userId |-> userId]

\* record['dynamodb'] present but not a mapping (None)
DdbNotMap == [present |-> TRUE, isMap |-> FALSE, keysOk |-> FALSE, userId |-> ABSENT]

NoS3 == [present |-> FALSE, wellFormed |-> FALSE, bucket |-> ABSENT, key |-> <<>>]

\* record['s3'] with bucket.name and object.key; a key is a sequence of characters
S3Obj(bucket, key) ==
    [present |-> TRUE, wellFormed |-> TRUE, bucket |-> bucket, key |-> key]

\* record['s3'] present without the bucket / object fields
S3Malformed == [present |-> TRUE, wellFormed |-> FALSE, bucket |-> ABSENT, key |-> <<>>]

MapRecord(eventName, ddb, s3) ==
    [kind |-> "map", eventName |-> eventName, dynamodb |-> ddb, s3 |-> s3]

\* an element of Records that is no mapping (a number)
IntRecord == [kind |-> "int", eventName |-> ABSENT, dynamodb |-> NoDdb, s3 |-> NoS3]

KeyAB == <<"a", "/", "b">>

RecordShapes ==
    { MapRecord("INSERT", Ddb(TRUE, "S"), NoS3),
      MapRecord("MODIFY", Ddb(TRUE, ABSENT), NoS3),
      MapRecord(ABSENT, Ddb(TRUE, ABSENT), NoS3),
      MapRecord("INSERT", Ddb(TRUE, "N"), NoS3),
      MapRecord("REMOVE", Ddb(FALSE, ABSENT), NoS3),
      MapRecord("MODIFY", DdbNotMap, NoS3),
      MapRecord("ObjectCreated:Put", NoDdb, S3Obj("bucket-1", KeyAB)),
      MapRecord("ObjectCreated:Put", NoDdb, S3Malformed),
      MapRecord("ObjectCreated:Put", Ddb(TRUE, ABSENT), S3Obj("bucket-1", KeyAB)),
      MapRecord(ABSENT, NoDdb, NoS3),
      IntRecord }

RECURSIVE SeqsUpTo(_, _)
SeqsUpTo(S, n) ==
    IF n = 0 THEN {<<>>}
    ELSE LET shorter == SeqsUpTo(S, n - 1)
         IN  shorter \cup {Append(s, x) : s \in {t \in shorter : Len(t) = n - 1}, x \in S}

\* event['Records']: missing, a list, None (falsy) or a number (truthy, not subscriptable)
RecordsAbsent == [kind |-> "absent", items |-> <<>>]
RecordsNone == [kind |-> "none", items |-> <<>>]
RecordsInt == [kind |-> "int", items |-> <<>>]
RecordsList(items) == [kind |-> "list", items |-> items]

RecordsValues ==
    {RecordsAbsent, RecordsNone, RecordsInt}
        \cup {RecordsList(s) : s \in SeqsUpTo(RecordShapes, MaxRecords)}

HttpMethods == {ABSENT, "GET", "POST"}
Paths == {ABSENT, "/items", "/other"}
Sources == {ABSENT, "aws.events", "custom.app"}

MapEvent(records, httpMethod, path, source) ==
    [kind |-> "map", Records |-> records, httpMethod |-> httpMethod,
     path |-> path, source |-> source]

\* the event is None
NullEvent ==
    [kind |-> "none", Records |-> RecordsAbsent, httpMethod |-> ABSENT,
     path |-> ABSENT, source |-> ABSENT]

\* the event is a list (a container without any of the keys)
ListEvent ==
    [kind |-> "list", Records |-> RecordsAbsent, httpMethod |-> ABSENT,
     path |-> ABSENT, source |-> ABSENT]

EmptyEvent == MapEvent(RecordsAbsent, ABSENT, ABSENT, ABSENT)

Events ==
    {NullEvent, ListEvent}
        \cup {MapEvent(r, m, p, s) :
                r \in RecordsValues, m \in HttpMethods, p \in Paths, s \in Sources}

-----------------------------------------------------------------------------
(* determine_event_source *)

SourceTags == {"dynamodb", "s3", "api_gateway", "cloudwatch_events", "unknown"}

\* Python's `key in x`
HasKey(x, key) ==
    CASE x.kind = "none" -> Raise("TypeError", "argument of type 'NoneType' is not iterable")
      [] x.kind = "list" -> Return(FALSE)
      [] OTHER ->
            Return(CASE key = "Records" -> x.Records.kind # "absent"
                     [] key = "httpMethod" -> x.httpMethod # ABSENT
                     [] key = "path" -> x.path # ABSENT
                     [] key = "source" -> x.source # ABSENT)

\* Python's truth value of event['Records']
Truthy(records) ==
    CASE records.kind = "list" -> records.items # <<>>
      [] records.kind = "int" -> TRUE
      [] OTHER -> FALSE

\* event['Records'][0]
FirstRecord(records) ==
    IF records.kind = "list"
    THEN Return(records.items[1])
    ELSE Raise("TypeError", "'int' object is not subscriptable")

\* `marker in record` for an element of Records
RecordHas(record, marker) ==
    IF record.kind # "map"
    THEN Raise("TypeError", "argument of type 'int' is not iterable")
    ELSE Return(IF marker = "dynamodb" THEN record.dynamodb.present
                ELSE record.s3.present)

\* `event['Records'] and marker in event['Records'][0]`
RecordsMarked(records, marker) ==
    IF ~Truthy(records) THEN Return(FALSE)
    ELSE LET first == FirstRecord(records)
         IN  IF first.kind = "raise" THEN first
             ELSE RecordHas(first.value, marker)

\* Variant: the markers are looked for in the other order
determine_event_source_s3_first(e) ==
    LET hasRecords == HasKey(e, "Records")
    IN  IF hasRecords.kind = "raise" THEN hasRecords
        ELSE IF hasRecords.value
        THEN LET isS3 == RecordsMarked(e.Records, "s3")
             IN  IF isS3.kind = "raise" THEN isS3
                 ELSE IF isS3.value THEN Return("s3")
                 ELSE LET isDdb == RecordsMarked(e.Records, "dynamodb")
                      IN  IF isDdb.kind = "raise" THEN isDdb
                          ELSE IF isDdb.value THEN Return("dynamodb")
                          ELSE Return("unknown")
        ELSE IF HasKey(e, "httpMethod").value /\ HasKey(e, "path").value
        THEN Return("api_gateway")
        ELSE IF HasKey(e, "source").value /\ e.source = "aws.events"
        THEN Return("cloudwatch_events")
        ELSE Return("unknown")

\* Variant: the remaining keys of the event are looked at after the Records
\* branch whenever that branch returned nothing (`if` in place of `elif`)
determine_event_source_if_chain(e) ==
    LET hasRecords == HasKey(e, "Records")
        isDdb == RecordsMarked(e.Records, "dynamodb")
        isS3 == RecordsMarked(e.Records, "s3")
    IN  IF hasRecords.kind = "raise" THEN hasRecords
        ELSE IF hasRecords.value /\ isDdb.kind = "raise" THEN isDdb
        ELSE IF hasRecords.value /\ isDdb.value THEN Return("dynamodb")
        ELSE IF hasRecords.value /\ isS3.kind = "raise" THEN isS3
        ELSE IF hasRecords.value /\ isS3.value THEN Return("s3")
        ELSE IF HasKey(e, "httpMethod").value /\ HasKey(e, "path").value
        THEN Return("api_gateway")
        ELSE IF HasKey(e, "source").value /\ e.source = "aws.events"
        THEN Return("cloudwatch_events")
        ELSE Return("unknown")

\* Variant: the Records branch is entered only for a non-empty Records value
\* (`if event.get('Records'):`), an empty one goes on to the other keys
determine_event_source_truthy_guard(e) ==
    LET hasRecords == HasKey(e, "Records")
    IN  IF hasRecords.kind = "raise" THEN hasRecords
        ELSE IF hasRecords.value /\ Truthy(e.Records)
        THEN LET isDdb == RecordsMarked(e.Records, "dynamodb")
             IN  IF isDdb.kind = "raise" THEN isDdb
                 ELSE IF isDdb.value THEN Return("dynamodb")
                 ELSE LET isS3 == RecordsMarked(e.Records, "s3")
                      IN  IF isS3.kind = "raise" THEN isS3
                          ELSE IF isS3.value THEN Return("s3")
                          ELSE Return("unknown")
        ELSE IF HasKey(e, "httpMethod").value /\ HasKey(e, "path").value
        THEN Return("api_gateway")
        ELSE IF HasKey(e, "source").value /\ e.source = "aws.events"
        THEN Return("cloudwatch_events")
        ELSE Return("unknown")

determine_event_source(e) ==
    LET hasRecords == HasKey(e, "Records")
    IN  IF hasRecords.kind = "raise" THEN hasRecords
        ELSE IF hasRecords.value
        THEN LET isDdb == RecordsMarked(e.Records, "dynamodb")
             IN  IF isDdb.kind = "raise" THEN isDdb
                 ELSE IF isDdb.value THEN Return("dynamodb")
                 ELSE LET isS3 == RecordsMarked(e.Records, "s3")
                      IN  IF isS3.kind = "raise" THEN isS3
                          ELSE IF isS3.value THEN Return("s3")
                          ELSE Return("unknown")
        ELSE IF HasKey(e, "httpMethod").value /\ HasKey(e, "path").value
        THEN Return("api_gateway")
        ELSE IF HasKey(e, "source").value /\ e.source = "aws.events"
        THEN Return("cloudwatch_events")
        ELSE Return("unknown")

------------------------------------------------------------------------
(* Collaborators: the outcomes of their calls are inputs of an invocation *)

\* A store call succeeds, is rejected by the service (botocore ClientError)
\* or fails below the service (e.g. EndpointConnectionError, no ClientError).
StoreOutcomes == {"ok", "ClientError", "OtherError"}

\* Message text of the exception a failing store call raises
ExcTexts == {"boom-1", "boom-2"}

\* Items a scan returns.  "full": id and a numeric timestamp (boto3 hands
\* numbers over as Decimal); "idOnly": an item stored without a timestamp.
ItemKinds == {"full", "idOnly"}

Item(id, kind) == [id |-> id, kind |-> kind]

ItemLists ==
    UNION {{[i \in 1..n |-> Item(i, k[i])] : k \in [1..n -> ItemKinds]} : n \in 0..MaxItems}

ScanResult(out, items) == [out |-> out, items |-> items]

ScanResults ==
    {ScanResult("ok", items) : items \in ItemLists}
        \cup {ScanResult("ClientError", <<>>), ScanResult("OtherError", <<>>)}

\* The clock value when the system starts
FirstClock == 1

\* sns: SNS_TOPIC_ARN is configured; notify[i]: sns.publish succeeds for the
\* record at position i; metric[k]: the k-th put_metric_data succeeds;
\* scan: result of table.scan; store[j]: outcome of the j-th put_item or
\* delete_item; text: message of the exception of a failing store call;
\* now: what datetime.utcnow() returns during the invocation.
Env(sns, notify, metric, scan, store, text) ==
    [sns |-> sns, notify |-> notify, metric |-> metric, scan |-> scan,
     store |-> store, text |-> text, now |-> FirstClock]

\* The same outcomes with the clock reading t
AtTime(e, t) == [e EXCEPT !.now = t]

DefaultText == "boom-1"

DefaultEnv == Env(FALSE, <<>>, <<>>, ScanResult("ok", <<>>), <<>>, DefaultText)

At(seq, i, default) == IF i \in DOMAIN seq THEN seq[i] ELSE default

Call(svc, op, arg, ok) == [svc |-> svc, op |-> op, arg |-> arg, ok |-> ok]

\* What a function produced together with the collaborator calls it issued
Done(res, cs) == [res |-> res, calls |-> cs]

Envelope(statusCode, body) ==
    [statusCode |-> statusCode, headers |-> "none", body |-> body]

EnvelopeJson(statusCode, body) ==
    [statusCode |-> statusCode, headers |-> "application/json", body |-> body]

-----------------------------------------------------------------------------
(* publish_metric, send_notification (src/lambda_handler.py) *)

\* Variant: the failure of put_metric_data is not caught
publish_metric_propagates(name, value, e, k) ==
    LET ok == At(e.metric, k, TRUE)
    IN  Done(IF ok THEN Return("None") ELSE Raise("EndpointConnectionError", "metric sink"),
             <<Call("cloudwatch", "put_metric_data", [name |-> name, value |-> value], ok)>>)

\* k: ordinal of the metric call within the invocation
publish_metric(name, value, e, k) ==
    LET ok == At(e.metric, k, TRUE)
    IN  Done(Return("None"),
             <<Call("cloudwatch", "put_metric_data", [name |-> name, value |-> value], ok)>>)

\* i: position of the record the notification is about
send_notification(e, i) ==
    IF ~e.sns
    THEN Done(Return("None"), <<>>)
    ELSE Done(Return("None"),
              <<Call("sns", "publish", [record |-> i], At(e.notify, i, TRUE))>>)

-----------------------------------------------------------------------------
(* process_dynamodb_stream *)

ChangeTypes == {"INSERT", "MODIFY", "REMOVE"}

\* Body of the loop's try block for the record at position i: the first
\* expression that raises ends it.
StreamRecordBody(record, e, i) ==
    IF record.kind # "map"
    THEN Done(Raise("TypeError", "'int' object is not subscriptable"), <<>>)
    ELSE IF record.eventName = ABSENT
    THEN Done(Raise("KeyError", "'eventName'"), <<>>)
    ELSE IF ~record.dynamodb.present
    THEN Done(Raise("KeyError", "'dynamodb'"), <<>>)
    ELSE IF ~record.dynamodb.isMap
    THEN Done(Raise("AttributeError", "'NoneType' object has no attribute 'get'"), <<>>)
    ELSE IF record.eventName \in ChangeTypes /\ ~record.dynamodb.keysOk
    THEN Done(Raise("TypeError", "Dynamodb type not supported"), <<>>)
    ELSE IF record.eventName = "INSERT" /\ record.dynamodb.userId # ABSENT
    THEN IF record.dynamodb.userId # "S"
         THEN Done(Raise("KeyError", "'S'"), <<>>)
         ELSE send_notification(e, i)
    ELSE Done(Return("None"), <<>>)

\* Variant: the first failing record ends the loop
RECURSIVE StreamLoop_abort(_, _, _, _)
StreamLoop_abort(records, e, i, acc) ==
    IF i > Len(records) THEN acc
    ELSE LET body == StreamRecordBody(records[i], e, i)
         IN  IF body.res.kind = "raise"
             THEN [acc EXCEPT !.failed = acc.failed + 1, !.calls = acc.calls \o body.calls]
             ELSE StreamLoop_abort(records, e, i + 1,
                    [acc EXCEPT !.processed = acc.processed + 1,
                                !.calls = acc.calls \o body.calls])

RECURSIVE StreamLoop(_, _, _, _)
StreamLoop(records, e, i, acc) ==
    IF i > Len(records) THEN acc
    ELSE LET body == StreamRecordBody(records[i], e, i)
         IN  StreamLoop(records, e, i + 1,
                [processed |-> acc.processed + (IF body.res.kind = "return" THEN 1 ELSE 0),
                 failed |-> acc.failed + (IF body.res.kind = "raise" THEN 1 ELSE 0),
                 calls |-> acc.calls \o body.calls])

\* event.get('Records', []) as the sequence a for loop walks
RecordsToIterate(ev) ==
    CASE ev.Records.kind \in {"absent", "list"} -> Return(ev.Records.items)
      [] OTHER -> Raise("TypeError", "object is not iterable")

\* Variant: the failed-count metric is published without looking at the count
process_dynamodb_stream_unguarded_metric(ev, e) ==
    LET recs == RecordsToIterate(ev)
    IN  IF recs.kind = "raise" THEN Done(recs, <<>>)
        ELSE
        LET loop == StreamLoop(recs.value, e, 1, [processed |-> 0, failed |-> 0, calls |-> <<>>])
            m1 == publish_metric("StreamRecordsProcessed", loop.processed, e, 1)
            m2 == publish_metric("StreamRecordsFailed", loop.failed, e, 2)
        IN  IF m1.res.kind = "raise" THEN Done(m1.res, loop.calls \o m1.calls)
            ELSE IF m2.res.kind = "raise"
            THEN Done(m2.res, loop.calls \o m1.calls \o m2.calls)
            ELSE Done(Return(Envelope(200, [processed |-> loop.processed,
                                            failed |-> loop.failed])),
                      loop.calls \o m1.calls \o m2.calls)

process_dynamodb_stream(ev, e) ==
    LET recs == RecordsToIterate(ev)
    IN  IF recs.kind = "raise" THEN Done(recs, <<>>)
        ELSE
        LET loop == StreamLoop(recs.value, e, 1, [processed |-> 0, failed |-> 0, calls |-> <<>>])
            m1 == publish_metric("StreamRecordsProcessed", loop.processed, e, 1)
            m2 == IF loop.failed > 0
                  THEN publish_metric("StreamRecordsFailed", loop.failed, e, 2)
                  ELSE Done(Return("None"), <<>>)
        IN  IF m1.res.kind = "raise" THEN Done(m1.res, loop.calls \o m1.calls)
            ELSE IF m2.res.kind = "raise"
            THEN Done(m2.res, loop.calls \o m1.calls \o m2.calls)
            ELSE Done(Return(Envelope(200, [processed |-> loop.processed,
                                            failed |-> loop.failed])),
                      loop.calls \o m1.calls \o m2.calls)

-----------------------------------------------------------------------------
(* process_api_gateway_request *)

\* json.dumps of scanned items: a Decimal is not JSON serializable
JsonDumpsItems(items) ==
    IF \E i \in DOMAIN items : items[i].kind = "full"
    THEN Raise("TypeError", "Object of type Decimal is not JSON serializable")
    ELSE Return([items |-> items])

process_api_gateway_request(ev, e) ==
    LET method == IF ev.httpMethod = ABSENT THEN "GET" ELSE ev.httpMethod
        path == IF ev.path = ABSENT THEN "/" ELSE ev.path
    IN  IF method = "GET" /\ path = "/items"
        THEN LET scanCall == Call("dynamodb", "scan", [limit |-> 10], e.scan.out = "ok")
             IN  CASE e.scan.out = "ok" ->
                        LET body == JsonDumpsItems(e.scan.items)
                        IN  IF body.kind = "raise" THEN Done(body, <<scanCall>>)
                            ELSE Done(Return(EnvelopeJson(200, body.value)), <<scanCall>>)
                   [] e.scan.out = "ClientError" ->
                        Done(Return(Envelope(500, [error |-> "Database error"])), <<scanCall>>)
                   [] OTHER ->
                        Done(Raise("OtherError", e.text), <<scanCall>>)
        ELSE Done(Return(Envelope(404, [error |-> "Not found"])), <<>>)

-----------------------------------------------------------------------------
(* process_scheduled_task *)

\* Variant: a failing deletion is skipped and the loop goes on
RECURSIVE DeleteLoop_isolating(_, _, _, _)
DeleteLoop_isolating(items, e, j, acc) ==
    IF j > Len(items) THEN Done(Return(acc.deleted), acc.calls)
    ELSE IF items[j].kind # "full"
    THEN DeleteLoop_isolating(items, e, j + 1, acc)
    ELSE LET out == At(e.store, j, "ok")
             call == Call("dynamodb", "delete_item", [id |-> items[j].id], out = "ok")
         IN  DeleteLoop_isolating(items, e, j + 1,
                [deleted |-> acc.deleted + (IF out = "ok" THEN 1 ELSE 0),
                 calls |-> Append(acc.calls, call)])

\* The deletion loop: stops at the first expression that raises
RECURSIVE DeleteLoop(_, _, _, _)
DeleteLoop(items, e, j, acc) ==
    IF j > Len(items) THEN Done(Return(acc.deleted), acc.calls)
    ELSE IF items[j].kind # "full"
    THEN Done(Raise("KeyError", "'timestamp'"), acc.calls)
    ELSE LET out == At(e.store, j, "ok")
             call == Call("dynamodb", "delete_item", [id |-> items[j].id], out = "ok")
         IN  IF out # "ok"
             THEN Done(Raise(out, e.text), Append(acc.calls, call))
             ELSE DeleteLoop(items, e, j + 1,
                             [deleted |-> acc.deleted + 1, calls |-> Append(acc.calls, call)])

\* What the try block of process_scheduled_task produces
ScheduledTry(ev, e) ==
    LET scanCall == Call("dynamodb", "scan", [filter |-> "expiration_time < :now"],
                         e.scan.out = "ok")
    IN  IF e.scan.out # "ok"
        THEN Done(Raise(e.scan.out, e.text), <<scanCall>>)
        ELSE
        LET loop == DeleteLoop(e.scan.items, e, 1, [deleted |-> 0, calls |-> <<scanCall>>])
        IN  IF loop.res.kind = "raise" THEN loop
            ELSE LET m == publish_metric("ExpiredItemsDeleted", loop.res.value, e, 1)
                 IN  IF m.res.kind = "raise" THEN Done(m.res, loop.calls \o m.calls)
                     ELSE Done(Return(Envelope(200, [deleted |-> loop.res.value])),
                               loop.calls \o m.calls)

\* The body of the 500 envelope the except clause builds from the exception
ScheduledErrorBody(exc) == [error |-> exc.text]

process_scheduled_task(ev, e) ==
    LET try == ScheduledTry(ev, e)
    IN  IF try.res.kind = "raise"
        THEN Done(Return(Envelope(500, ScheduledErrorBody(try.res))), try.calls)
        ELSE try

-----------------------------------------------------------------------------
(* process_s3_event *)

\* key.replace('/', '-')
RECURSIVE Replace(_, _, _)
Replace(s, old, new) ==
    IF s = <<>> THEN <<>>
    ELSE <<IF Head(s) = old THEN new ELSE Head(s)>> \o Replace(Tail(s), old, new)

\* f"s3-{key.replace('/', '-')}"
S3ItemId(bucket, key) == <<"s", "3", "-">> \o Replace(key, "/", "-")

\* What table.put_item does to the loop: a ClientError is caught and logged
S3PutResult(out, e) ==
    IF out = "OtherError" THEN Raise(out, e.text) ELSE Return("None")

RECURSIVE S3Loop(_, _, _, _)
S3Loop(records, e, i, cs) ==
    IF i > Len(records) THEN Done(Return("None"), cs)
    ELSE LET record == records[i]
         IN  IF record.kind # "map"
             THEN Done(Raise("TypeError", "'int' object is not subscriptable"), cs)
             ELSE IF ~record.s3.present
             THEN Done(Raise("KeyError", "'s3'"), cs)
             ELSE IF ~record.s3.wellFormed
             THEN Done(Raise("KeyError", "'bucket'"), cs)
             ELSE LET out == At(e.store, i, "ok")
                      call == Call("dynamodb", "put_item",
                                   [id |-> S3ItemId(record.s3.bucket, record.s3.key),
                                    bucket |-> record.s3.bucket, key |-> record.s3.key],
                                   out = "ok")
                      put == S3PutResult(out, e)
                  IN  IF put.kind = "raise" THEN Done(put, Append(cs, call))
                      ELSE S3Loop(records, e, i + 1, Append(cs, call))

process_s3_event(ev, e) ==
    LET recs == RecordsToIterate(ev)
    IN  IF recs.kind = "raise" THEN Done(recs, <<>>)
        ELSE LET loop == S3Loop(recs.value, e, 1, <<>>)
             IN  IF loop.res.kind = "raise" THEN loop
                 ELSE Done(Return(Envelope(200, [processed |-> Len(recs.value)])), loop.calls)

-----------------------------------------------------------------------------
(* lambda_handler *)

\* Variant: an unrecognised event is counted in a metric before the 400
Dispatch_counts_unknown(ev, e) ==
    LET src == determine_event_source(ev)
    IN  IF src.kind = "raise" THEN Done(src, <<>>)
        ELSE CASE src.value = "dynamodb" -> process_dynamodb_stream(ev, e)
               [] src.value = "api_gateway" -> process_api_gateway_request(ev, e)
               [] src.value = "cloudwatch_events" -> process_scheduled_task(ev, e)
               [] src.value = "s3" -> process_s3_event(ev, e)
               [] OTHER ->
                    Done(Return(Envelope(400, [error |-> "Unknown event source"])),
                         publish_metric("UnknownEvents", 1, e, 1).calls)

\* The try block: classify, then route
Dispatch(ev, e) ==
    LET src == determine_event_source(ev)
    IN  IF src.kind = "raise" THEN Done(src, <<>>)
        ELSE CASE src.value = "dynamodb" -> process_dynamodb_stream(ev, e)
               [] src.value = "api_gateway" -> process_api_gateway_request(ev, e)
               [] src.value = "cloudwatch_events" -> process_scheduled_task(ev, e)
               [] src.value = "s3" -> process_s3_event(ev, e)
               [] OTHER -> Done(Return(Envelope(400, [error |-> "Unknown event source"])), <<>>)

lambda_handler(ev, e) ==
    \* the log line before the try block evaluates determine_event_source(event)
    LET logged == determine_event_source(ev)
    IN  IF logged.kind = "raise" THEN Done(logged, <<>>)
        ELSE LET try == Dispatch(ev, e)
             IN  IF try.res.kind = "raise"
                 THEN Done(Return(Envelope(500, [error |-> "Internal error"])), try.calls)
                 ELSE try

-----------------------------------------------------------------------------
(* POST /api/items (src/app_flask.py) *)

\* The request body as request.get_json() sees it: "invalid" (not JSON:
\* get_json raises), "empty" (no bytes: the JSON parser fails and get_json
\* raises BadRequest), "null" (get_json returns None: the JSON value null,
\* or no body and no JSON content type) or a JSON object.
Request(body, name, description) ==
    [body |-> body, name |-> name, description |-> description]

NoRequest == Request("none", ABSENT, ABSENT)

Names == {ABSENT, "", "widget"}
Descriptions == {ABSENT, "x"}

Requests ==
    {Request("invalid", ABSENT, ABSENT), Request("empty", ABSENT, ABSENT),
     Request("null", ABSENT, ABSENT)}
        \cup {Request("object", n, d) : n \in Names, d \in Descriptions}

\* Python's truth value of the parsed body: None and {} are falsy
DataTruthy(req) ==
    req.body = "object" /\ (req.name # ABSENT \/ req.description # ABSENT)

publish_metric_flask(name, value, e, k) ==
    LET ok == At(e.metric, k, TRUE)
    IN  Done(Return("None"),
             <<Call("cloudwatch", "put_metric_data", [name |-> name, value |-> value], ok)>>)

\* f"item-{datetime.utcnow().timestamp()}": the prefix and the clock reading
\* (distinct readings print as distinct strings)
ItemId(now) == <<"item-", now>>

\* The store's put_item: an item with the same id is replaced
StorePut(tbl, item) ==
    IF \E i \in DOMAIN tbl : tbl[i].id = item.id
    THEN [i \in DOMAIN tbl |-> IF tbl[i].id = item.id THEN item ELSE tbl[i]]
    ELSE Append(tbl, item)

\* The store after the calls of a request: every put that succeeded is applied
RECURSIVE StoreAfter(_, _)
StoreAfter(tbl, cs) ==
    IF cs = <<>> THEN tbl
    ELSE StoreAfter(IF Head(cs).op = "put_item" /\ Head(cs).ok
                    THEN StorePut(tbl, Head(cs).arg) ELSE tbl,
                    Tail(cs))

FlaskResponse(statusCode, body) == Envelope(statusCode, body)

create_item(req, e) ==
    \* the exception of get_json is an Exception: the last except clause
    IF req.body \in {"invalid", "empty"}
    THEN Done(Return(FlaskResponse(500, [error |-> "Internal server error"])), <<>>)
    ELSE IF ~DataTruthy(req) \/ req.name = ABSENT
    THEN Done(Return(FlaskResponse(400, [error |-> "Missing required field: name"])), <<>>)
    ELSE
    \* of the item's attributes the id, the name and the description are kept
    LET item == [id |-> ItemId(e.now),
                 name |-> req.name,
                 description |-> IF req.description = ABSENT THEN "" ELSE req.description]
        out == At(e.store, 1, "ok")
        put == Call("dynamodb", "put_item", item, out = "ok")
    IN  CASE out = "ClientError" ->
                Done(Return(FlaskResponse(500, [error |-> "Database error"])), <<put>>)
          [] out = "OtherError" ->
                Done(Return(FlaskResponse(500, [error |-> "Internal server error"])), <<put>>)
          [] OTHER ->
                LET m == publish_metric_flask("ItemsCreated", 1, e, 1)
                IN  IF m.res.kind = "raise"
                    THEN Done(Return(FlaskResponse(500, [error |-> "Internal server error"])),
                              <<put>> \o m.calls)
                    ELSE Done(Return(FlaskResponse(201,
                                  [message |-> "Item created successfully", item |-> item])),
                              <<put>> \o m.calls)

-----------------------------------------------------------------------------
(* GET /api/items (src/app_flask.py) and the store's scan *)

\* No continuation token: LastEvaluatedKey missing, last_key not supplied
NoKey == <<>>

\* The limit query parameter: not supplied, an integer, or other text
NoLimit == [kind |-> "absent", n |-> 0]
IntLimit(n) == [kind |-> "int", n |-> n]
TextLimit == [kind |-> "text", n |-> 0]

ListRequest(limit, last_key) == [limit |-> limit, last_key |-> last_key]

LimitArgs ==
    {NoLimit, TextLimit} \cup {IntLimit(n) : n \in {-1, 0, 1, 2, 3, 100, 101, 500}}

StoredItem(i) == [id |-> ItemId(i), name |-> "widget", description |-> ""]

Tables == {[i \in 1..n |-> StoredItem(i)] : n \in 0..MaxTable}

Min2(a, b) == IF a <= b THEN a ELSE b

\* Position of the item with the key in the table, 0 for no key
PositionOf(tbl, key) ==
    IF \E i \in DOMAIN tbl : tbl[i].id = key
    THEN CHOOSE i \in DOMAIN tbl : tbl[i].id = key
    ELSE 0

\* The store's scan(Limit, ExclusiveStartKey): the items after the start
\* key, at most Limit of them, and LastEvaluatedKey when the limit stopped
\* the scan
StoreScan(tbl, limit, startKey) ==
    LET start == PositionOf(tbl, startKey)
        last == Min2(start + limit, Len(tbl))
    IN  [items |-> SubSeq(tbl, start + 1, last),
         lastKey |-> IF start + limit <= Len(tbl) THEN tbl[start + limit].id ELSE NoKey]

list_items(req, e, tbl) ==
    IF req.limit.kind = "text"
    THEN \* int() raises ValueError, which is no ClientError
         Done(Raise("ValueError", "invalid literal for int()"), <<>>)
    ELSE
    LET limit == Min2(IF req.limit.kind = "absent" THEN 10 ELSE req.limit.n, 100)
        \* the client library rejects a Limit below 1 before sending
        out == IF limit < 1 THEN "ParamValidationError" ELSE At(e.store, 1, "ok")
        \* last_key is never read: the scan has no ExclusiveStartKey
        scanCall == Call("dynamodb", "scan", [limit |-> limit, start |-> NoKey], out = "ok")
    IN  CASE out = "ok" ->
                LET page == StoreScan(tbl, limit, NoKey)
                IN  Done(Return(FlaskResponse(200,
                            [items |-> page.items, count |-> Len(page.items),
                             last_evaluated_key |-> page.lastKey])),
                         <<scanCall>>)
          [] out = "ClientError" ->
                Done(Return(FlaskResponse(500, [error |-> "Database error"])), <<scanCall>>)
          [] OTHER ->
                Done(Raise(out, e.text), <<scanCall>>)

-----------------------------------------------------------------------------
(* Inputs of an invocation *)

BoolSeqs(n) == [1..n -> BOOLEAN]
OutcomeSeqs(n) == [1..n -> StoreOutcomes]

\* The exception text is an input only when some store call fails
Texts(scan, store) ==
    IF scan.out # "ok" \/ \E j \in DOMAIN store : store[j] # "ok"
    THEN ExcTexts ELSE {DefaultText}

\* Events handed to lambda_handler: a non-empty Records list comes without
\* the keys of the other sources (the batch handlers never read them).
LambdaEvents ==
    {ev \in Events :
        (ev.Records.kind = "list" /\ ev.Records.items # <<>>)
            => (ev.httpMethod = ABSENT /\ ev.path = ABSENT /\ ev.source = ABSENT)}

\* Outcomes of the collaborator calls the handler of the event can make
Envs(ev) ==
    LET src == determine_event_source(ev)
        n == Len(ev.Records.items)
        okScan == ScanResult("ok", <<>>)
    IN  IF src.kind = "raise" THEN {DefaultEnv}
        ELSE CASE src.value = "dynamodb" ->
                    {Env(FALSE, <<>>, m, okScan, <<>>, DefaultText) : m \in BoolSeqs(2)}
                      \cup {Env(TRUE, nt, m, okScan, <<>>, DefaultText) :
                                nt \in BoolSeqs(n), m \in BoolSeqs(2)}
               [] src.value = "s3" ->
                    UNION {{Env(FALSE, <<>>, <<>>, okScan, st, t) : t \in Texts(okScan, st)} :
                                st \in OutcomeSeqs(n)}
               [] src.value = "api_gateway" ->
                    UNION {{Env(FALSE, <<>>, <<>>, sc, <<>>, t) : t \in Texts(sc, <<>>)} :
                                sc \in ScanResults}
               [] src.value = "cloudwatch_events" ->
                    UNION {UNION {{Env(FALSE, <<>>, m, sc, st, t) :
                                        m \in BoolSeqs(1), t \in Texts(sc, st)} :
                                    st \in OutcomeSeqs(Len(sc.items))} :
                                sc \in ScanResults}
               [] OTHER -> {DefaultEnv}

FlaskEnvs ==
    UNION {{Env(FALSE, <<>>, m, ScanResult("ok", <<>>), st, t) :
                m \in BoolSeqs(1), t \in Texts(ScanResult("ok", <<>>), st)} :
            st \in OutcomeSeqs(1)}

-----------------------------------------------------------------------------
(* The state machine *)

NoResp == [kind |-> "none"]

Pending ==
    /\ pc = "start"
    /\ resp = NoResp
    /\ calls = <<>>
    /\ tag = NoResp
    /\ table = <<>>
    /\ clock = FirstClock
    /\ created = <<>>
    /\ pages = <<>>

InitLambda ==
    /\ entry = "lambda"
    /\ event \in LambdaEvents
    /\ env \in Envs(event)
    /\ request = NoRequest
    /\ Pending

InitFlask ==
    /\ entry = "flask"
    /\ event = EmptyEvent
    /\ request \in Requests
    /\ env \in FlaskEnvs
    /\ Pending

Init == InitLambda \/ InitFlask

\* One invocation of the event function
LambdaInvoke ==
    /\ entry = "lambda"
    /\ pc = "start"
    /\ LET run == lambda_handler(event, env)
       IN  /\ resp' = run.res
           /\ calls' = run.calls
    /\ pc' = "done"
    /\ UNCHANGED <<entry, event, request, env, tag>>
    /\ UNCHANGED storeVars

\* One POST /api/items request
CreateItem ==
    /\ entry = "flask"
    /\ pc = "start"
    /\ LET run == create_item(request, env)
       IN  /\ resp' = run.res
           /\ calls' = run.calls
           /\ table' = StoreAfter(table, run.calls)
           /\ created' = IF run.res.value.statusCode = 201
                         THEN Append(created, run.res.value.body.item.id)
                         ELSE created
    /\ pc' = "done"
    /\ UNCHANGED <<entry, event, request, env, tag, clock, pages>>

Next == LambdaInvoke \/ CreateItem

Spec == Init /\ [][Next]_vars

\* A caller pages through GET /api/items: the first request, then one
\* request per continuation token received
InitList ==
    /\ entry = "list"
    /\ event = EmptyEvent
    /\ request \in {ListRequest(l, NoKey) : l \in LimitArgs}
    /\ env \in {Env(FALSE, <<>>, <<>>, ScanResult("ok", <<>>), <<out>>, DefaultText) :
                    out \in StoreOutcomes}
    /\ pc = "start"
    /\ resp = NoResp
    /\ calls = <<>>
    /\ tag = NoResp
    /\ table \in Tables
    /\ clock = FirstClock
    /\ created = <<>>
    /\ pages = <<>>

ListOk == resp.kind = "return" /\ resp.value.statusCode = 200

\* One GET /api/items request
ListItems ==
    /\ entry = "list"
    /\ pc = "start"
    /\ LET run == list_items(request, env, table)
       IN  /\ resp' = run.res
           /\ calls' = run.calls
           /\ pages' = IF run.res.kind = "return" /\ run.res.value.statusCode = 200
                       THEN Append(pages, run.res.value.body.items)
                       ELSE pages
    /\ pc' = "done"
    /\ UNCHANGED <<entry, event, request, env, tag, table, clock, created>>

\* The caller repeats the request with the token of the last response
FollowToken ==
    /\ entry = "list"
    /\ pc = "done"
    /\ ListOk
    /\ resp.value.body.last_evaluated_key # NoKey
    /\ Len(pages) < MaxPages
    /\ request' = ListRequest(request.limit, resp.value.body.last_evaluated_key)
    /\ \E out \in StoreOutcomes : env' = [env EXCEPT !.store = <<out>>]
    /\ pc' = "start"
    /\ UNCHANGED <<entry, event, resp, calls, tag, table, clock, created, pages>>

NextList == ListItems \/ FollowToken

SpecList == InitList /\ [][NextList]_vars

\* A run of POST /api/items requests while the clock advances
InitCreate ==
    /\ entry = "create"
    /\ event = EmptyEvent
    /\ request = NoRequest
    /\ env = DefaultEnv
    /\ Pending

\* One POST /api/items request, served at the current clock value
PostItem ==
    /\ entry = "create"
    /\ Len(created) < MaxCreates
    /\ \E req \in Requests, e \in FlaskEnvs :
        LET run == create_item(req, AtTime(e, clock))
        IN  /\ request' = req
            /\ env' = AtTime(e, clock)
            /\ resp' = run.res
            /\ calls' = run.calls
            /\ table' = StoreAfter(table, run.calls)
            /\ created' = IF run.res.value.statusCode = 201
                          THEN Append(created, run.res.value.body.item.id)
                          ELSE created
    /\ pc' = "done"
    /\ UNCHANGED <<entry, event, tag, clock, pages>>

\* Time passes between two requests
Tick ==
    /\ entry = "create"
    /\ clock < MaxClock
    /\ clock' = clock + 1
    /\ UNCHANGED <<entry, pc, event, request, env, resp, calls, tag, table, created, pages>>

NextCreate == PostItem \/ Tick

SpecCreate == InitCreate /\ [][NextCreate]_vars

\* Outcomes of the side-channel calls of a stream batch of n records
StreamEnvs(n) ==
    {Env(FALSE, <<>>, m, ScanResult("ok", <<>>), <<>>, DefaultText) : m \in BoolSeqs(2)}
        \cup {Env(TRUE, nt, m, ScanResult("ok", <<>>), <<>>, DefaultText) :
                nt \in BoolSeqs(n), m \in BoolSeqs(2)}

\* Batches handed to process_dynamodb_stream: no Records key, or a list
StreamEvents ==
    {MapEvent(r, ABSENT, ABSENT, ABSENT) :
        r \in {RecordsAbsent} \cup {RecordsList(s) : s \in SeqsUpTo(RecordShapes, MaxRecords)}}

\* process_dynamodb_stream called with a batch, the empty one included
InitStream ==
    /\ entry = "stream"
    /\ event \in StreamEvents
    /\ env \in StreamEnvs(Len(event.Records.items))
    /\ request = NoRequest
    /\ Pending

StreamInvoke ==
    /\ entry = "stream"
    /\ pc = "start"
    /\ LET run == process_dynamodb_stream(event, env)
       IN  /\ resp' = run.res
           /\ calls' = run.calls
    /\ pc' = "done"
    /\ UNCHANGED <<entry, event, request, env, tag>>
    /\ UNCHANGED storeVars

NextStream == StreamInvoke

SpecStream == InitStream /\ [][NextStream]_vars

\* Storage records over two buckets and three keys
S3Buckets == {"bucket-1", "bucket-2"}
S3Keys == {KeyAB, <<"a", "-", "b">>, <<"c">>}

S3Records == {MapRecord("ObjectCreated:Put", NoDdb, S3Obj(b, k)) : b \in S3Buckets, k \in S3Keys}

S3Events ==
    {MapEvent(RecordsList(s), ABSENT, ABSENT, ABSENT) :
        s \in SeqsUpTo(S3Records, MaxRecords) \ {<<>>}}

\* lambda_handler invoked with an object-storage batch
InitS3 ==
    /\ entry = "lambda"
    /\ event \in S3Events
    /\ env \in Envs(event)
    /\ request = NoRequest
    /\ Pending

NextS3 == LambdaInvoke

SpecS3 == InitS3 /\ [][NextS3]_vars

\* determine_event_source on its own, applied to every event shape
InitClassify ==
    /\ entry = "classify"
    /\ event \in Events
    /\ env = DefaultEnv
    /\ request = NoRequest
    /\ Pending

Classify ==
    /\ entry = "classify"
    /\ pc = "start"
    /\ tag' = determine_event_source(event)
    /\ pc' = "done"
    /\ UNCHANGED <<entry, event, request, env, resp, calls>>
    /\ UNCHANGED storeVars

NextClassify == Classify

SpecClassify == InitClassify /\ [][NextClassify]_vars

-----------------------------------------------------------------------------
(* Shapes of events, used to state the properties *)

ClassifyDone == entry = "classify" /\ pc = "done"
LambdaDone == entry = "lambda" /\ pc = "done"
FlaskDone == entry = "flask" /\ pc = "done"

HasRecordsList(ev) == ev.kind = "map" /\ ev.Records.kind = "list"
EmptyRecords(ev) == HasRecordsList(ev) /\ ev.Records.items = <<>>
NonEmptyRecords(ev) == HasRecordsList(ev) /\ ev.Records.items # <<>>

\* The first record is a mapping that carries the marker
FirstHasDynamodb(ev) ==
    /\ NonEmptyRecords(ev)
    /\ ev.Records.items[1].kind = "map"
    /\ ev.Records.items[1].dynamodb.present

FirstHasS3(ev) ==
    /\ NonEmptyRecords(ev)
    /\ ev.Records.items[1].kind = "map"
    /\ ev.Records.items[1].s3.present

HasHttpKeys(ev) == ev.kind = "map" /\ ev.httpMethod # ABSENT /\ ev.path # ABSENT
HasSchedulerSource(ev) == ev.kind = "map" /\ ev.source = "aws.events"

\* A mapping whose Records value, when present, is a list that is empty or
\* starts with a mapping
WellFormedEvent(ev) ==
    /\ ev.kind = "map"
    /\ ev.Records.kind \in {"absent", "list"}
    /\ NonEmptyRecords(ev) => ev.Records.items[1].kind = "map"

-----------------------------------------------------------------------------
(* C1: for every event and every outcome of the collaborator calls,       *)
(* lambda_handler returns an envelope whose statusCode is 200, 400, 404   *)
(* or 500; no exception reaches the runtime.                              *)
C1_AlwaysEnvelope ==
    LambdaDone =>
        /\ resp.kind = "return"
        /\ resp.value.statusCode \in {200, 400, 404, 500}

(* C2: determine_event_source is total: for every event it returns one of *)
(* the five tags and never raises.                                        *)
C2_ClassifyTotal ==
    ClassifyDone =>
        /\ tag.kind = "return"
        /\ tag.value \in SourceTags

\* The four-step priority algorithm in which an event whose Records match
\* neither marker falls through to the httpMethod/path and source steps
FourStepFallThrough(ev) ==
    IF FirstHasDynamodb(ev) THEN "dynamodb"
    ELSE IF FirstHasS3(ev) THEN "s3"
    ELSE IF HasHttpKeys(ev) THEN "api_gateway"
    ELSE IF HasSchedulerSource(ev) THEN "cloudwatch_events"
    ELSE "unknown"

\* The algorithm in which the presence of a Records key closes steps 2 and 3
RecordsKeyFirst(ev) ==
    IF ev.Records.kind # "absent"
    THEN IF FirstHasDynamodb(ev) THEN "dynamodb"
         ELSE IF FirstHasS3(ev) THEN "s3"
         ELSE "unknown"
    ELSE IF HasHttpKeys(ev) THEN "api_gateway"
    ELSE IF HasSchedulerSource(ev) THEN "cloudwatch_events"
    ELSE "unknown"

(* C3 as stated: whenever determine_event_source returns a tag, it is the *)
(* tag of the four-step algorithm with fall-through; in particular an     *)
(* empty Records sequence plus httpMethod and path gives api_gateway.     *)
C3_FourStepFallThrough ==
    (ClassifyDone /\ tag.kind = "return") => tag.value = FourStepFallThrough(event)

(* C3 amended: on every well-formed event determine_event_source returns  *)
(* the tag of the algorithm in which an event that has a Records key is   *)
(* dynamodb, s3 or unknown and never reaches the httpMethod/path and      *)
(* source steps.                                                          *)
C3_RecordsKeyFirst ==
    (ClassifyDone /\ WellFormedEvent(event)) => tag = Return(RecordsKeyFirst(event))

C3_Witness ==
    /\ ClassifyDone
    /\ EmptyRecords(event)
    /\ HasHttpKeys(event)
    /\ tag = Return("unknown")

(* C4: a non-empty Records sequence whose first record has the dynamodb   *)
(* marker is classified dynamodb, whatever the later records look like    *)
(* and whatever other keys (httpMethod, path, source, an s3 marker on the *)
(* same record) are present.                                              *)
C4_FirstRecordDecides ==
    (ClassifyDone /\ FirstHasDynamodb(event)) => tag = Return("dynamodb")

C4_Witness ==
    /\ ClassifyDone
    /\ FirstHasDynamodb(event)
    /\ FirstHasS3(event)
    /\ Len(event.Records.items) = 2
    /\ event.Records.items[2].kind = "int"
    /\ HasHttpKeys(event)
    /\ HasSchedulerSource(event)
    /\ tag = Return("dynamodb")

(* C5: an event with an empty Records sequence is classified unknown,     *)
(* whatever other keys it carries.                                        *)
C5_EmptyRecordsUnknown ==
    (ClassifyDone /\ EmptyRecords(event)) => tag = Return("unknown")

C5_Witness ==
    /\ ClassifyDone
    /\ EmptyRecords(event)
    /\ ~HasHttpKeys(event)
    /\ HasSchedulerSource(event)
    /\ tag = Return("unknown")

-----------------------------------------------------------------------------
(* Properties of the batch handlers *)

\* A stream record the loop body cannot process: no mapping, no change
\* type, no change-capture payload, or a payload that makes an expression
\* of the body raise
StreamRecordMalformed(r) ==
    \/ r.kind # "map"
    \/ r.eventName = ABSENT
    \/ ~r.dynamodb.present
    \/ ~r.dynamodb.isMap
    \/ (r.eventName \in ChangeTypes /\ ~r.dynamodb.keysOk)
    \/ (r.eventName = "INSERT" /\ r.dynamodb.userId \notin {ABSENT, "S"})

\* A well-formed insert of a user: the record a notification is sent for
StreamRecordNotifies(r) ==
    ~StreamRecordMalformed(r) /\ r.eventName = "INSERT" /\ r.dynamodb.userId = "S"

MalformedCount(records) ==
    Cardinality({i \in DOMAIN records : StreamRecordMalformed(records[i])})

NotifiedFor(i) ==
    \E c \in DOMAIN calls :
        calls[c].svc = "sns" /\ calls[c].op = "publish" /\ calls[c].arg = [record |-> i]

(* C6: a stream batch of N records of which M are malformed or hit a      *)
(* per-record error returns 200 with processed = N - M and failed = M;    *)
(* the records after a failed one are still processed (the notification   *)
(* of every well-formed user insert is sent).                             *)
C6_StreamCounts ==
    (LambdaDone /\ FirstHasDynamodb(event)) =>
        LET records == event.Records.items
            N == Len(records)
            M == MalformedCount(records)
        IN  /\ resp = Return(Envelope(200, [processed |-> N - M, failed |-> M]))
            /\ \A i \in 1..N :
                    (env.sns /\ StreamRecordNotifies(records[i])) => NotifiedFor(i)

C6_Witness ==
    /\ LambdaDone
    /\ FirstHasDynamodb(event)
    /\ Len(event.Records.items) = 2
    /\ StreamRecordMalformed(event.Records.items[1])
    /\ StreamRecordNotifies(event.Records.items[2])
    /\ env.sns
    /\ NotifiedFor(2)
    /\ resp = Return(Envelope(200, [processed |-> 1, failed |-> 1]))

\* The first record is a well-formed storage record without a stream marker
IsS3Batch(ev) ==
    /\ FirstHasS3(ev)
    /\ ~FirstHasDynamodb(ev)
    /\ ev.Records.items[1].s3.wellFormed

(* C7: for an object-storage batch of N records every per-record failure  *)
(* (a put error of any kind, a later record without bucket/key) is        *)
(* swallowed and the response is always 200 with processed = N.           *)
C7_S3AlwaysCounts ==
    (LambdaDone /\ IsS3Batch(event)) =>
        resp = Return(Envelope(200, [processed |-> Len(event.Records.items)]))

IsScheduled(ev) ==
    /\ ev.kind = "map"
    /\ ev.Records.kind = "absent"
    /\ ~HasHttpKeys(ev)
    /\ HasSchedulerSource(ev)

IsDelete(c) == c.op = "delete_item"

\* Ids of the items delete_item was called for, in call order
DeletedIds == [i \in DOMAIN SelectSeq(calls, IsDelete) |-> SelectSeq(calls, IsDelete)[i].arg.id]

\* Ids of the first n scanned items, in scan order
ScanIds(n) == [i \in 1..n |-> env.scan.items[i].id]

\* Positions of the scanned items whose deletion fails: the item lacks a
\* key attribute, or delete_item raises
FailingDeletes ==
    {j \in DOMAIN env.scan.items :
        env.scan.items[j].kind # "full" \/ At(env.store, j, "ok") # "ok"}

Min(S) == CHOOSE x \in S : \A y \in S : x <= y

NoCallOf(svc, op) == \A c \in DOMAIN calls : ~(calls[c].svc = svc /\ calls[c].op = op)

(* C8: in the scheduled cleanup, when the scan returns k items and the    *)
(* deletion of item j fails, the handler returns 500, calls delete_item   *)
(* for no item after j, undoes nothing (no put) and emits no metric;      *)
(* when no deletion fails it returns 200 with deleted = k after exactly   *)
(* k delete calls in scan order.                                          *)
C8_CleanupAbortsAtFirstFailure ==
    (LambdaDone /\ IsScheduled(event) /\ env.scan.out = "ok") =>
        LET k == Len(env.scan.items)
        IN  IF FailingDeletes = {}
            THEN /\ resp = Return(Envelope(200, [deleted |-> k]))
                 /\ DeletedIds = ScanIds(k)
                 /\ \A c \in DOMAIN calls : IsDelete(calls[c]) => calls[c].ok
            ELSE LET j == Min(FailingDeletes)
                     called == IF env.scan.items[j].kind = "full" THEN j ELSE j - 1
                 IN  /\ resp.kind = "return"
                     /\ resp.value.statusCode = 500
                     /\ DeletedIds = ScanIds(called)
                     /\ NoCallOf("dynamodb", "put_item")
                     /\ NoCallOf("cloudwatch", "put_metric_data")

C8_Witness ==
    /\ LambdaDone
    /\ IsScheduled(event)
    /\ env.scan.out = "ok"
    /\ Len(env.scan.items) = 3
    /\ \A j \in 1..3 : env.scan.items[j].kind = "full"
    /\ env.store = <<"ok", "ClientError", "ok">>
    /\ resp.kind = "return"
    /\ resp.value.statusCode = 500
    /\ DeletedIds = <<1, 2>>

WithText(e, t) == [e EXCEPT !.text = t]

(* C9: every 500 envelope of the event function carries a body that does  *)
(* not depend on the failing collaborator's exception: a run that differs *)
(* only in the text of the exception the store raises returns the same    *)
(* body.                                                                  *)
C9_GenericErrorBody ==
    (LambdaDone /\ resp.kind = "return" /\ resp.value.statusCode = 500) =>
        \A t \in ExcTexts :
            lambda_handler(event, WithText(env, t)).res.value.body = resp.value.body

\* The environments that differ from e only in the outcomes of the
\* notification and metric calls
SideVariants(e) ==
    {[e EXCEPT !.notify = nt, !.metric = m] :
        nt \in BoolSeqs(Len(e.notify)), m \in BoolSeqs(Len(e.metric))}

FailedCall(svc) == \E c \in DOMAIN calls : calls[c].svc = svc /\ ~calls[c].ok

(* C10: the response of a handler that publishes metrics or sends         *)
(* notifications (stream batch, scheduled cleanup, POST /api/items) is    *)
(* the same whatever the outcome of each of those calls: status code,     *)
(* body and counts do not change when a metric or notification call       *)
(* raises.                                                                *)
C10_SideChannelIndependence ==
    /\ LambdaDone => \A e2 \in SideVariants(env) : lambda_handler(event, e2).res = resp
    /\ FlaskDone => \A e2 \in SideVariants(env) : create_item(request, e2).res = resp

C10_Witness ==
    /\ LambdaDone
    /\ FirstHasDynamodb(event)
    /\ FailedCall("sns")
    /\ FailedCall("cloudwatch")
    /\ resp = Return(Envelope(200, [processed |-> 2, failed |-> 0]))


-----------------------------------------------------------------------------
(* Events no handler is registered for *)

\* The event is one determine_event_source returns (not raises) for, and
\* none of the four shapes: no marked first record and, when there is no
\* Records key, neither httpMethod with path nor the scheduler source
IsUnknownShape(ev) ==
    /\ ev.kind = "list" \/ WellFormedEvent(ev) \/ (ev.kind = "map" /\ ev.Records.kind = "none")
    /\ ~FirstHasDynamodb(ev)
    /\ ~FirstHasS3(ev)
    /\ ev.Records.kind = "absent" => (~HasHttpKeys(ev) /\ ~HasSchedulerSource(ev))

(* C11: an event classified as unknown yields the fixed 400 envelope with *)
(* body {error: 'Unknown event source'} and no collaborator call at all   *)
(* (no store, metric or notification call).                               *)
C11_UnknownTouchesNothing ==
    (LambdaDone /\ IsUnknownShape(event)) =>
        /\ resp = Return(Envelope(400, [error |-> "Unknown event source"]))
        /\ calls = <<>>

C11_Witness ==
    /\ LambdaDone
    /\ EmptyRecords(event)
    /\ HasHttpKeys(event)
    /\ HasSchedulerSource(event)
    /\ resp = Return(Envelope(400, [error |-> "Unknown event source"]))
    /\ calls = <<>>


-----------------------------------------------------------------------------
(* Validation of POST /api/items *)

\* The body carries no name field: nothing was sent, null, or an object
\* without the key
NoNameField(req) ==
    \/ req.body \in {"empty", "null"}
    \/ (req.body = "object" /\ req.name = ABSENT)

(* C12: POST /api/items whose JSON body has no name field (an empty or    *)
(* absent body included) returns 400 and makes no store call and no       *)
(* metric call.                                                           *)
C12_MissingNameIs400 ==
    (FlaskDone /\ NoNameField(request)) =>
        /\ resp.value.statusCode = 400
        /\ calls = <<>>

(* C13: POST /api/items whose name field is present but empty returns 400 *)
(* and makes no store put and no metric call; only a present, non-empty   *)
(* name reaches the store.                                                *)
C13_EmptyNameIs400 ==
    (FlaskDone /\ request.body = "object" /\ request.name = "") =>
        /\ resp.value.statusCode = 400
        /\ calls = <<>>


-----------------------------------------------------------------------------
(* Listing: limit and pagination *)

ListDone == entry = "list" /\ pc = "done"

Max2(a, b) == IF a >= b THEN a ELSE b

\* The limit clamped to [1, 100], 10 when none is supplied
ClampedLimit(l) == IF l.kind = "absent" THEN 10 ELSE Max2(1, Min2(l.n, 100))

(* C14: for every integer limit supplied to GET /api/items the Limit      *)
(* passed to the store scan lies in [1, 100]: values above 100 are passed *)
(* as 100, values below 1 as 1, and without a limit the scan uses 10.     *)
C14_LimitClamped ==
    (ListDone /\ request.limit.kind \in {"int", "absent"}) =>
        /\ Len(calls) = 1
        /\ calls[1].op = "scan"
        /\ calls[1].arg.limit = ClampedLimit(request.limit)

\* No item was handed to the caller in two pages
NoItemTwice ==
    \A i, j \in DOMAIN pages :
        i < j => \A a \in DOMAIN pages[i], b \in DOMAIN pages[j] : pages[i][a] # pages[j][b]

(* C15: pagination makes progress: a caller who repeats the request with  *)
(* the continuation token of the last response as last_key receives the   *)
(* page that starts after it, so no page (no item) is returned twice.     *)
C15_PagesAdvance ==
    /\ NoItemTwice
    /\ (ListDone /\ ListOk /\ request.last_key # NoKey) =>
            resp.value.body.items =
                StoreScan(table, calls[1].arg.limit, request.last_key).items


-----------------------------------------------------------------------------
(* Item ids *)

(* C17: item ids are unique: after any sequence or interleaving of        *)
(* successful POST /api/items requests the generated ids are pairwise     *)
(* distinct and no create overwrote the item of another one, two requests *)
(* that read the same clock value included.                               *)
C17_IdsUnique ==
    entry = "create" =>
        /\ \A i, j \in DOMAIN created : i # j => created[i] # created[j]
        /\ Len(table) = Len(created)


-----------------------------------------------------------------------------
(* Metrics of the stream handler *)

StreamDone == entry = "stream" /\ pc = "done"

IsSns(c) == c.svc = "sns"

\* The metrics a batch is to emit, in order: the processed count always,
\* the failed count when it is not 0
ExpectedStreamMetrics(records) ==
    LET M == MalformedCount(records)
        P == Len(records) - M
    IN  <<[name |-> "StreamRecordsProcessed", value |-> P]>>
            \o (IF M > 0 THEN <<[name |-> "StreamRecordsFailed", value |-> M]>> ELSE <<>>)

(* C16: process_dynamodb_stream emits its metrics only after the last     *)
(* record was handled: the processed-count metric exactly once per        *)
(* invocation (also for a count of 0 and for an empty batch), the         *)
(* failed-count metric exactly once if failedCount > 0 and not at all     *)
(* otherwise.                                                             *)
C16_MetricsAfterLoop ==
    StreamDone =>
        LET nSns == Len(SelectSeq(calls, IsSns))
            nMetric == Len(calls) - nSns
        IN  /\ \A c \in 1..nSns : calls[c].svc = "sns"
            /\ \A c \in (nSns + 1)..Len(calls) :
                    calls[c].svc = "cloudwatch" /\ calls[c].op = "put_metric_data"
            /\ [c \in 1..nMetric |-> calls[nSns + c].arg]
                    = ExpectedStreamMetrics(event.Records.items)

C16_Witness ==
    /\ StreamDone
    /\ Len(event.Records.items) = 2
    /\ StreamRecordMalformed(event.Records.items[1])
    /\ StreamRecordNotifies(event.Records.items[2])
    /\ Len(calls) = 3
    /\ calls[1].svc = "sns"
    /\ calls[2].arg = [name |-> "StreamRecordsProcessed", value |-> 1]
    /\ calls[3].arg = [name |-> "StreamRecordsFailed", value |-> 1]

\* The empty batch: one metric, carrying 0
C16_WitnessEmpty ==
    /\ StreamDone
    /\ event.Records.items = <<>>
    /\ Len(calls) = 1
    /\ calls[1].arg = [name |-> "StreamRecordsProcessed", value |-> 0]


-----------------------------------------------------------------------------
(* Ids of the storage records *)

IsPut(c) == c.op = "put_item"

(* C18: the id process_s3_event writes for a storage record is derived    *)
(* from the bucket+key pair: two records that differ in bucket or in key  *)
(* are put under different ids, two records with the same bucket and key  *)
(* under the same id.                                                     *)
C18_IdFromBucketAndKey ==
    LambdaDone =>
        \A c, d \in DOMAIN calls :
            (IsPut(calls[c]) /\ IsPut(calls[d])) =>
                ((calls[c].arg.id = calls[d].arg.id)
                    <=> (calls[c].arg.bucket = calls[d].arg.bucket
                            /\ calls[c].arg.key = calls[d].arg.key))

=============================================================================
